---- MODULE Spec2Model ----
\* A model of src/src/threadpool.rs: the keyed registry of worker threads
\* (ThreadPool) and its Worker, under both cfg variants of the `workers` table
\* (std HashMap behind `&mut self`, and DashMap behind `&self`).
EXTENDS Naturals, FiniteSets, Sequences, TLC

\* ------------------------------------------------------------------ bounds
MaxThreads == 2     \* how many times the factory may be invoked in one run

Ids == {1, 2}                   \* worker identities (type parameter Id)
Callers == {"c1", "c2"}         \* threads of the caller that use the registry
States == {42}                  \* the type parameter State: opaque to the registry, one value stands for all
Strategies == {"hashmap", "dashmap"}    \* cfg(not(feature = "dashmap")) / cfg(feature = "dashmap")
\* What the thread body handed back by the caller's factory does:
\*   good    : keeps its receiver and runs until the shutdown signal arrives (or the
\*             sender is gone), then returns
\*   early   : ignores the signal: may drop its receiver at any time and may return
\*             at any time, with the receiver dropped or left alive elsewhere
\*   panicky : as early, but ends in a panic instead of a return
\*   hang    : keeps its receiver and never returns
Kinds == {"good", "early", "panicky", "hang"}

NoWorker == 0       \* the key is vacant in `workers`
NoId == 0           \* no argument

VARIABLES
    strategy,   \* which cfg variant of the table was compiled in
    state,      \* ThreadPool.state, the value cloned into every worker
    pool,       \* "alive" | "dropping" | "dropped" | "aborted" (Drop::drop panicked)
    workers,    \* ThreadPool.workers : Ids -> thread number of the Worker, or NoWorker
    threads,    \* every Worker ever made by Worker::new, with the thread it owns
    pc,         \* per caller, where it is inside spawn / stop / drop
    op,         \* per caller, the call it is in ("spawn" | "stop" | "drop" | "none")
    arg,        \* per caller, the id argument of the call
    w,          \* per caller, the Worker it holds in a local
    ret,        \* per caller, the value its last call returned
    iterGuard,  \* keys whose shard is read-locked by a live DashMap iterator item
    registered  \* history: ids whose last Ok spawn was not followed by a stop that found it

vars == <<strategy, state, pool, workers, threads, pc, op, arg, w, ret, iterGuard, registered>>

\* ------------------------------------------------------------------ values
NoRet == [op |-> "none", id |-> NoId, res |-> "none"]
Returned(o, i, r) == [op |-> o, id |-> i, res |-> r]

\* struct Worker { id, thread, phantom, shutdown_tx } together with the state of
\* the thread behind `thread` and of the channel behind `shutdown_tx`:
\*   state     : the copy of ThreadPool.state the factory was given
\*   status    : "running" | "exited" | "panicked"   (the thread)
\*   rx        : "held" | "gone"   (the Receiver handed to the factory: alive / dropped)
\*   signalled : shutdown_tx.send(()) succeeded
\*   joined    : thread.join() returned
\*   fate      : "live" (the Worker value exists, so does its sender)
\*               | "stopped" (consumed by Worker::stop)
\*               | "replaced" (dropped without stop: displaced from the table by insert)
\*               | "unwound" (dropped without stop: left over when Drop::drop panicked)
Worker_new(id, kind) ==
    [id |-> id, kind |-> kind, state |-> state, status |-> "running", rx |-> "held",
     signalled |-> FALSE,
     joined |-> FALSE, fate |-> "live"]

Tids == DOMAIN threads
Keys == {id \in Ids : workers[id] # NoWorker}

\* Drop of a Worker value that did not go through stop: the sender and the
\* JoinHandle are discarded, the thread is detached.
DropWorkers(ts, T, how) ==
    [t \in DOMAIN ts |-> IF t \in T THEN [ts[t] EXCEPT !.fate = how] ELSE ts[t]]

\* ------------------------------------------------------------------ ids
\* HashMap: workers.keys().cloned().collect()
\* DashMap: workers.iter().map(|r| r.id.clone()).collect()
ids ==
    IF strategy = "hashmap" THEN Keys
    ELSE {threads[workers[k]].id : k \in Keys}

Exclusive_none(c) == TRUE
Exclusive_bug(c) == \A d \in Callers \ {c} : pc[d] = "idle"
\* `&mut self` (HashMap variant) admits no other call on the registry while this
\* one runs; `&self` (DashMap variant) admits any.
Exclusive(c) == strategy = "hashmap" => \A d \in Callers \ {c} : pc[d] = "idle"

\* The call of caller c returns: its locals are gone.
Idle(c) ==
    /\ pc' = [pc EXCEPT ![c] = "idle"]
    /\ op' = [op EXCEPT ![c] = "none"]
    /\ arg' = [arg EXCEPT ![c] = NoId]
    /\ w' = [w EXCEPT ![c] = NoWorker]

\* DashMap takes the shard's write lock for insert and remove; it is not granted
\* while a reference into that shard is alive.
CanWrite(k) == k \notin iterGuard

TypeOK ==
    /\ strategy \in Strategies
    /\ state \in States
    /\ pool \in {"alive", "dropping", "dropped", "aborted"}
    /\ workers \in [Ids -> Tids \cup {NoWorker}]
    /\ Len(threads) <= MaxThreads + 1
    /\ \A t \in Tids :
          /\ threads[t].id \in Ids
          /\ threads[t].kind \in Kinds
          /\ threads[t].state \in States
          /\ threads[t].status \in {"running", "exited", "panicked"}
          /\ threads[t].rx \in {"held", "gone"}
          /\ threads[t].signalled \in BOOLEAN
          /\ threads[t].joined \in BOOLEAN
          /\ threads[t].fate \in {"live", "stopped", "replaced", "unwound"}
    /\ iterGuard \subseteq Ids
    /\ registered \subseteq Ids

Init ==
    /\ strategy \in Strategies
    /\ state \in States
    /\ pool = "alive"
    /\ workers = [id \in Ids |-> NoWorker]
    /\ threads = <<>>
    /\ pc = [c \in Callers |-> "idle"]
    /\ op = [c \in Callers |-> "none"]
    /\ arg = [c \in Callers |-> NoId]
    /\ w = [c \in Callers |-> NoWorker]
    /\ ret = [c \in Callers |-> NoRet]
    /\ iterGuard = {}
    /\ registered = {}

\* ------------------------------------------------------------------ spawn
\* The factory may be invoked MaxThreads times in all; a spawn that found its
\* key vacant only goes on when its invocation still fits.
FactoryBudget ==
    Len(threads) + Cardinality({d \in Callers : pc[d] = "spawn_new"}) < MaxThreads

contains_key_bug(id) == FALSE
\* workers.contains_key(&id)
contains_key(id) == workers[id] # NoWorker

insert_bug(k, v) == workers
insert_clobber(k, v) == [i \in Ids |-> IF i = k THEN v ELSE NoWorker]
\* workers.insert(k, v): the entry under k becomes v, whatever was there before.
insert(k, v) == [workers EXCEPT ![k] = v]

remove_bug(k) == workers
remove_clear(k) == [i \in Ids |-> NoWorker]
\* workers.remove(&k)
remove(k) == [workers EXCEPT ![k] = NoWorker]

\* spawn, lines 64-66 / 85-87: the duplicate check, and the early return.
spawn_contains_key(c, id) ==
    /\ pc[c] = "idle"
    /\ pool = "alive"
    /\ Exclusive(c)
    /\ IF contains_key(id)
       THEN /\ ret' = [ret EXCEPT ![c] = Returned("spawn", id, "WorkerAlreadyExist")]
            /\ UNCHANGED <<pc, op, arg>>
       ELSE /\ FactoryBudget
            /\ pc' = [pc EXCEPT ![c] = "spawn_new"]
            /\ op' = [op EXCEPT ![c] = "spawn"]
            /\ arg' = [arg EXCEPT ![c] = id]
            /\ ret' = [ret EXCEPT ![c] = NoRet]
    /\ UNCHANGED <<strategy, state, pool, workers, threads, w, iterGuard, registered>>

\* spawn, lines 70 / 91, the argument Worker::new(id, self.state.clone(), handle):
\* a channel is made and the factory starts the thread.
spawn_Worker_new(c) ==
    /\ pc[c] = "spawn_new"
    /\ \E kind \in Kinds :
         threads' = Append(threads, Worker_new(arg[c], kind))
    /\ w' = [w EXCEPT ![c] = Len(threads) + 1]
    /\ pc' = [pc EXCEPT ![c] = "spawn_insert"]
    /\ UNCHANGED <<strategy, state, pool, workers, op, arg, ret, iterGuard, registered>>

\* spawn, lines 69-72 / 90-93: workers.insert(id.clone(), worker); Ok(()).
\* The value insert returns (the Worker that was under the key, if any) is dropped.
spawn_insert(c) ==
    /\ pc[c] = "spawn_insert"
    /\ strategy = "dashmap" => CanWrite(arg[c])
    /\ workers' = insert(arg[c], w[c])
    /\ threads' = IF contains_key(arg[c])
                  THEN DropWorkers(threads, {workers[arg[c]]}, "replaced")
                  ELSE threads
    /\ registered' = registered \cup {arg[c]}
    /\ ret' = [ret EXCEPT ![c] = Returned("spawn", arg[c], "Ok")]
    /\ Idle(c)
    /\ UNCHANGED <<strategy, state, pool, iterGuard>>

\* ------------------------------------------------------------------ stop
\* stop(id) is entered (lines 97 / 105).
stop_call(c, id) ==
    /\ pc[c] = "idle"
    /\ pool = "alive"
    /\ Exclusive(c)
    /\ pc' = [pc EXCEPT ![c] = "remove"]
    /\ op' = [op EXCEPT ![c] = "stop"]
    /\ arg' = [arg EXCEPT ![c] = id]
    /\ ret' = [ret EXCEPT ![c] = NoRet]
    /\ UNCHANGED <<strategy, state, pool, workers, threads, w, iterGuard, registered>>

\* The Workers still in the table when a teardown stop fails: the panic of
\* unwrap() unwinds through the loop, the Drain (or the DashMap itself) is
\* dropped and drops them.
Remaining == {workers[k] : k \in Keys}

\* What follows Worker::stop's return value r in the caller c, given the
\* threads ts as Worker::stop left them:
\*   stop (lines 99 / 107): r is returned;
\*   drop (lines 120 / 125): .unwrap(), then the next iteration.
AfterWorkerStop(c, r, ts) ==
    IF op[c] = "stop"
    THEN /\ ret' = [ret EXCEPT ![c] = Returned("stop", arg[c], r)]
         /\ Idle(c)
         /\ threads' = ts
         /\ UNCHANGED <<pool, workers, iterGuard>>
    ELSE IF r = "Ok"
    THEN /\ pc' = [pc EXCEPT ![c] = "drop_next"]
         /\ arg' = [arg EXCEPT ![c] = NoId]
         /\ w' = [w EXCEPT ![c] = NoWorker]
         /\ threads' = ts
         /\ iterGuard' = {}
         /\ UNCHANGED <<pool, workers, ret, op>>
    ELSE /\ pc' = [pc EXCEPT ![c] = "panicked"]
         /\ arg' = [arg EXCEPT ![c] = NoId]
         /\ w' = [w EXCEPT ![c] = NoWorker]
         /\ pool' = "aborted"
         /\ threads' = DropWorkers(ts, Remaining, "unwound")
         /\ workers' = [id \in Ids |-> NoWorker]
         /\ iterGuard' = {}
         /\ UNCHANGED <<ret, op>>

stop_None_bug(c) == AfterWorkerStop(c, "Ok", threads)
\* stop, lines 100 / 108: None => Err(Error::WorkerNotFound(..)).
stop_None(c) == AfterWorkerStop(c, "WorkerNotFound", threads)

\* stop, lines 98-101 / 106-109: match self.workers.remove(&id);
\* drop (DashMap), line 124: self.workers.remove(&worker.id).unwrap().
workers_remove(c) ==
    /\ pc[c] = "remove"
    /\ strategy = "dashmap" => CanWrite(arg[c])
    /\ IF contains_key(arg[c])
       THEN /\ workers' = remove(arg[c])
            /\ w' = [w EXCEPT ![c] = workers[arg[c]]]
            /\ pc' = [pc EXCEPT ![c] = "stop_send"]
            /\ registered' = IF op[c] = "stop" THEN registered \ {arg[c]} ELSE registered
            /\ UNCHANGED <<pool, threads, ret, iterGuard, op, arg>>
       ELSE /\ UNCHANGED registered
            /\ IF op[c] = "stop"
               THEN stop_None(c)
               ELSE AfterWorkerStop(c, "UnwrapNone", threads)
    /\ UNCHANGED <<strategy, state>>

send_bug(t) == TRUE
\* self.shutdown_tx.send(()): fails exactly when the receiver has been dropped.
send(t) == threads[t].rx = "held"

send_Err_bug == "Ok"
\* The `?` of line 158 on a failed send: Err(Error::SendShutdownSignal(..)), by
\* the #[from] of line 20.
send_Err == "SendShutdownSignal"

Worker_stop_send_bug(c) ==
    /\ pc[c] = "stop_send"
    /\ pc' = [pc EXCEPT ![c] = "stop_join"]
    /\ UNCHANGED <<strategy, state, pool, workers, threads, ret, iterGuard, op, arg, w,
                   registered>>
\* Worker::stop, line 158: self.shutdown_tx.send(())?
Worker_stop_send(c) ==
    /\ pc[c] = "stop_send"
    /\ IF send(w[c])
       THEN /\ threads' = [threads EXCEPT ![w[c]].signalled = TRUE]
            /\ pc' = [pc EXCEPT ![c] = "stop_join"]
            /\ UNCHANGED <<pool, workers, ret, iterGuard, op, arg, w>>
       ELSE AfterWorkerStop(c, send_Err,
                            [threads EXCEPT ![w[c]].fate = "stopped"])
    /\ UNCHANGED <<strategy, state, registered>>

join_bug(t) == "Ok"
\* The value of self.thread.join() once the thread has terminated.
join(t) == IF threads[t].status = "exited" THEN "Ok" ELSE "StopError"

Worker_stop_join_bug(c) ==
    /\ pc[c] = "stop_join"
    /\ AfterWorkerStop(c, join(w[c]),
                       [threads EXCEPT ![w[c]].joined = TRUE, ![w[c]].fate = "stopped"])
    /\ UNCHANGED <<strategy, state, registered>>
\* Worker::stop, lines 159-164: self.thread.join().map_err(..)?; Ok(())
Worker_stop_join(c) ==
    /\ pc[c] = "stop_join"
    /\ threads[w[c]].status # "running"
    /\ AfterWorkerStop(c, join(w[c]),
                       [threads EXCEPT ![w[c]].joined = TRUE, ![w[c]].fate = "stopped"])
    /\ UNCHANGED <<strategy, state, registered>>

\* ------------------------------------------------------------------ drop
\* The registry is discarded: Drop::drop is entered (line 116). It takes
\* `&mut self` of a value nobody borrows any more.
drop_call(c) ==
    /\ pc[c] = "idle"
    /\ pool = "alive"
    /\ \A d \in Callers : pc[d] = "idle"
    /\ pool' = "dropping"
    /\ pc' = [pc EXCEPT ![c] = "drop_next"]
    /\ op' = [op EXCEPT ![c] = "drop"]
    /\ ret' = [ret EXCEPT ![c] = NoRet]
    /\ UNCHANGED <<strategy, state, workers, threads, arg, w, iterGuard, registered>>

\* One step of the loop of Drop::drop.
\*   HashMap, line 119: self.workers.drain() yields the next (key, worker), which
\*     leaves the table;
\*   DashMap, line 123: the iterator over &self.workers yields a reference to the
\*     next entry, which keeps its shard read-locked while it lives.
\* When nothing is left the loop, and the drop, end.
drop_next(c) ==
    /\ pc[c] = "drop_next"
    /\ IF Keys = {}
       THEN /\ pool' = "dropped"
            /\ pc' = [pc EXCEPT ![c] = "done"]
            /\ UNCHANGED <<workers, arg, w, iterGuard>>
       ELSE \E k \in Keys :
              /\ arg' = [arg EXCEPT ![c] = threads[workers[k]].id]
              /\ UNCHANGED pool
              /\ IF strategy = "hashmap"
                 THEN /\ workers' = remove(k)
                      /\ w' = [w EXCEPT ![c] = workers[k]]
                      /\ pc' = [pc EXCEPT ![c] = "stop_send"]
                      /\ UNCHANGED iterGuard
                 ELSE /\ iterGuard' = iterGuard \cup {k}
                      /\ pc' = [pc EXCEPT ![c] = "remove"]
                      /\ UNCHANGED <<workers, w>>
    /\ UNCHANGED <<strategy, state, threads, op, ret, registered>>

\* ------------------------------------------------------------------ threads
\* The sender of thread t's channel is gone (its Worker was consumed or dropped).
Disconnected(t) == threads[t].fate # "live"

\* What becomes of thread t's receiver when its body ends: a good body owns
\* it, so it is dropped; another body may have moved or leaked it, so it
\* may stay alive.
RxAtEnd(t) ==
    IF threads[t].kind = "good" THEN {"gone"} ELSE {threads[t].rx, "gone"}

\* The thread body drops its receiver and keeps running.
thread_drop_rx(t) ==
    /\ threads[t].status = "running"
    /\ threads[t].kind \in {"early", "panicky"}
    /\ threads[t].rx = "held"
    /\ threads' = [threads EXCEPT ![t].rx = "gone"]
    /\ UNCHANGED <<strategy, state, pool, workers, pc, op, arg, w, ret, iterGuard, registered>>

\* The thread body returns.
thread_exit(t) ==
    /\ threads[t].status = "running"
    /\ \/ threads[t].kind = "early"
       \/ /\ threads[t].kind = "good"
          /\ threads[t].signalled \/ Disconnected(t)
    /\ \E r \in RxAtEnd(t) :
          threads' = [threads EXCEPT ![t].status = "exited", ![t].rx = r]
    /\ UNCHANGED <<strategy, state, pool, workers, pc, op, arg, w, ret, iterGuard, registered>>

\* The thread body panics.
thread_panic(t) ==
    /\ threads[t].status = "running"
    /\ threads[t].kind = "panicky"
    /\ \E r \in RxAtEnd(t) :
          threads' = [threads EXCEPT ![t].status = "panicked", ![t].rx = r]
    /\ UNCHANGED <<strategy, state, pool, workers, pc, op, arg, w, ret, iterGuard, registered>>

\* ------------------------------------------------------------------ spec
Next ==
    \/ \E c \in Callers, id \in Ids : spawn_contains_key(c, id)
    \/ \E c \in Callers : spawn_Worker_new(c)
    \/ \E c \in Callers : spawn_insert(c)
    \/ \E c \in Callers, id \in Ids : stop_call(c, id)
    \/ \E c \in Callers : workers_remove(c)
    \/ \E c \in Callers : Worker_stop_send(c)
    \/ \E c \in Callers : Worker_stop_join(c)
    \/ \E c \in Callers : drop_call(c)
    \/ \E c \in Callers : drop_next(c)
    \/ \E t \in Tids : thread_drop_rx(t)
    \/ \E t \in Tids : thread_exit(t)
    \/ \E t \in Tids : thread_panic(t)

Spec == Init /\ [][Next]_vars

\* ------------------------------------------------------------------ round trip
\* One caller repeats spawn(id, f); stop(id) on one id, f making a thread that
\* exits when signalled, on a registry that may already hold a worker of any
\* kind under the other id.
InitRoundTrip ==
    /\ strategy \in Strategies
    /\ state \in States
    /\ pool = "alive"
    /\ pc = [c \in Callers |-> "idle"]
    /\ op = [c \in Callers |-> "none"]
    /\ arg = [c \in Callers |-> NoId]
    /\ w = [c \in Callers |-> NoWorker]
    /\ ret = [c \in Callers |-> NoRet]
    /\ iterGuard = {}
    /\ \/ /\ workers = [id \in Ids |-> NoWorker]
          /\ threads = <<>>
          /\ registered = {}
       \/ \E other \in Ids, kind \in Kinds :
            /\ workers = [id \in Ids |-> IF id = other THEN 1 ELSE NoWorker]
            /\ threads = <<Worker_new(other, kind)>>
            /\ registered = {other}

\* The id the program cycles on: any vacant one at first, the same one after.
CycleId(i) ==
    IF ret["c1"].op = "none" THEN workers[i] = NoWorker ELSE i = ret["c1"].id

NextRoundTrip ==
    \/ \E i \in Ids : /\ CycleId(i)
                       /\ ret["c1"].op \in {"none", "stop"}
                       /\ spawn_contains_key("c1", i)
    \/ /\ spawn_Worker_new("c1")
       /\ threads'[Len(threads')].kind = "good"
    \/ spawn_insert("c1")
    \/ \E i \in Ids : /\ CycleId(i)
                       /\ ret["c1"].op = "spawn"
                       /\ stop_call("c1", i)
    \/ workers_remove("c1")
    \/ Worker_stop_send("c1")
    \/ Worker_stop_join("c1")
    \/ \E t \in Tids : thread_drop_rx(t)
    \/ \E t \in Tids : thread_exit(t)
    \/ \E t \in Tids : thread_panic(t)

SpecRoundTrip == InitRoundTrip /\ [][NextRoundTrip]_vars

\* ------------------------------------------------------------------ distinct spawns
\* Under the DashMap variant every caller spawns once, at the same time as the
\* others, each under an id no other caller uses, on an empty registry.
InitDistinctSpawns ==
    /\ Init
    /\ strategy = "dashmap"

\* Caller c has not called yet, and no other caller has taken id i.
MayTake(c, i) ==
    /\ ret[c] = NoRet
    /\ \A d \in Callers \ {c} : arg[d] # i /\ ret[d].id # i

NextDistinctSpawns ==
    \/ \E c \in Callers, i \in Ids : MayTake(c, i) /\ spawn_contains_key(c, i)
    \/ \E c \in Callers : spawn_Worker_new(c)
    \/ \E c \in Callers : spawn_insert(c)
    \/ \E t \in Tids : thread_drop_rx(t)
    \/ \E t \in Tids : thread_exit(t)
    \/ \E t \in Tids : thread_panic(t)

SpecDistinctSpawns == InitDistinctSpawns /\ [][NextDistinctSpawns]_vars

\* ------------------------------------------------------------------ claims
Occupied(i) == workers[i] # NoWorker
Quiet == \A c \in Callers : pc[c] = "idle"

\* The threads started under id i that no stop or teardown has taken out of
\* the table: still held by the spawn that made them, registered, or dropped
\* without stop.
Unretired(i) ==
    {t \in Tids : /\ threads[t].id = i
                  /\ threads[t].fate # "stopped"
                  /\ \A c \in Callers : ~(w[c] = t /\ pc[c] \in {"stop_send", "stop_join"})}

\* C1: under the DashMap variant the duplicate check and the insert of spawn are
\* one atomic step per key: once the concurrent spawn(id) calls on a vacant id
\* have returned, one thread was started under id (the other call having been
\* refused), and it is the one registered under id.
C1_SpawnCheckThenInsertAtomic ==
    (strategy = "dashmap" /\ Quiet) =>
        \A i \in Ids : /\ Cardinality(Unretired(i)) <= 1
                       /\ \A t \in Unretired(i) : workers[i] = t

\* C2: dropping a registry all of whose workers' threads exit once signalled
\* always completes (while the drop is under way some step can be taken), and
\* when it has completed the table is empty and every worker it held is joined.
AllGood == \A t \in Tids : threads[t].kind = "good"
C2_DropCompletes ==
    AllGood =>
        /\ pool = "dropping" => ENABLED Next
        /\ pool = "dropped" =>
              /\ Keys = {}
              /\ \A t \in Tids : threads[t].fate # "live"
              /\ \A t \in Tids : threads[t].fate = "stopped" =>
                                    threads[t].joined /\ threads[t].status = "exited"

\* C3: once teardown has ended, normally or by aborting, every worker that was
\* still registered when it began has been sent the shutdown signal and joined,
\* also when the stop of another worker failed.
C3_NoWorkerOutlivesRegistry ==
    pool \in {"dropped", "aborted"} =>
        \A t \in Tids : threads[t].fate \in {"live", "unwound"} =>
                            threads[t].signalled /\ threads[t].joined

\* C4: spawn(id) on an occupied key returns WorkerAlreadyExist and changes
\* nothing: the table and every worker and thread are as before, and the
\* caller is back from the call without having invoked the factory.
C4_SpawnDuplicateRefused ==
    [][\A c \in Callers, i \in Ids :
         (spawn_contains_key(c, i) /\ Occupied(i)) =>
            /\ ret'[c] = Returned("spawn", i, "WorkerAlreadyExist")
            /\ pc'[c] = "idle"
            /\ workers' = workers
            /\ threads' = threads
            /\ Cardinality({t \in DOMAIN threads' : workers'[i] = t}) = 1]_vars

C4_Witness ==
    \E c \in Callers, i \in Ids :
        /\ ret[c] = Returned("spawn", i, "WorkerAlreadyExist")
        /\ Occupied(i)
        /\ threads[workers[i]].status = "running"

\* C5: stop(id) on a vacant key returns WorkerNotFound and has no side effect:
\* the table is unchanged and no worker is signalled or joined.
C5_StopMissingRefused ==
    [][\A c \in Callers :
         (workers_remove(c) /\ op[c] = "stop" /\ ~Occupied(arg[c])) =>
            /\ ret'[c] = Returned("stop", arg[c], "WorkerNotFound")
            /\ pc'[c] = "idle"
            /\ workers' = workers
            /\ threads' = threads
            /\ registered' = registered]_vars

C5_Witness ==
    \E c \in Callers, i \in Ids :
        /\ ret[c] = Returned("stop", i, "WorkerNotFound")
        /\ Keys # {}

\* The call of caller c returns r from stop in this step.
StopReturns(c, r) ==
    /\ op[c] = "stop"
    /\ pc'[c] = "idle"
    /\ ret'[c] = Returned("stop", arg[c], r)

\* C6, as stated: whenever stop(id) returns Ok, id is absent from ids() and the
\* thread of the worker that was registered under id has terminated and been
\* joined.
C6_StopOkAbsentAndJoined ==
    [][\A c \in Callers :
         StopReturns(c, "Ok") =>
            /\ arg[c] \notin ids'
            /\ threads'[w[c]].joined
            /\ threads'[w[c]].status # "running"]_vars

\* C6, amended: whenever stop(id) returns Ok, the worker it took from under id
\* is no longer in the table and its thread has terminated and been joined; id
\* is absent from ids() unless, under the DashMap variant, a spawn(id) of
\* another caller has registered a new worker after the removal.
C6_StopOkRemovedAndJoined ==
    [][\A c \in Callers :
         StopReturns(c, "Ok") =>
            /\ w[c] # NoWorker
            /\ \A i \in Ids : workers'[i] # w[c]
            /\ threads'[w[c]].joined
            /\ threads'[w[c]].status # "running"
            /\ arg[c] \in ids' => strategy = "dashmap"]_vars

C6_Witness ==
    \E c \in Callers, i \in Ids, t \in Tids :
        /\ ret[c] = Returned("stop", i, "Ok")
        /\ threads[t].id = i
        /\ threads[t].joined
        /\ i \notin ids

\* C7: while the registry lives, ids() is exactly the set of ids whose most
\* recent Ok spawn was not followed by a stop that found the id.
C7_IdsAreTheRegistered ==
    pool = "alive" => ids = registered

\* Both ids registered, the second one first.
C7_Witness ==
    /\ pool = "alive"
    /\ ids = Ids
    /\ workers[1] > workers[2]

\* C8: in no execution, concurrent spawns under the DashMap variant and
\* teardown included, is a Worker dropped without having gone through
\* Worker::stop: every Worker ever created either still exists (in the table or
\* in the hands of the call that made or removed it) or was consumed by
\* Worker::stop; none was displaced from the table by an insert and none was
\* discarded by a teardown that panicked.
C8_WorkerAlwaysStopped ==
    \A t \in Tids : threads[t].fate \in {"live", "stopped"}

\* C9: every key of the table holds a Worker of its own, whose thread has not
\* been joined: an entry leaves the table before its thread is joined.
C9_EntriesAreUnjoined ==
    /\ \A i \in Keys : /\ workers[i] \in Tids
                       /\ ~threads[workers[i]].joined
                       /\ threads[workers[i]].fate = "live"
                       /\ threads[workers[i]].id = i
    /\ \A i, j \in Keys : workers[i] = workers[j] => i = j

\* A worker has been joined while another entry is still registered.
C9_Witness ==
    /\ Keys # {}
    /\ \E t \in Tids : threads[t].joined

\* C10: in the round-trip program every spawn and every stop returns Ok, and
\* after each cycle the id is vacant again and every thread started under it
\* has exited and been joined.
C10_RoundTrip ==
    /\ ret["c1"].res \in {"none", "Ok"}
    /\ (pc["c1"] = "idle" /\ ret["c1"].op = "stop") =>
          /\ workers[ret["c1"].id] = NoWorker
          /\ \A t \in Tids :
                IF threads[t].id = ret["c1"].id
                THEN /\ threads[t].status = "exited"
                     /\ threads[t].joined
                     /\ threads[t].fate = "stopped"
                ELSE /\ workers[threads[t].id] = t
                     /\ threads[t].fate = "live"

\* Two cycles on the same id have completed.
C10_Witness ==
    /\ ret["c1"].op = "stop"
    /\ ret["c1"].res = "Ok"
    /\ Len(threads) >= 2
    /\ \A t \in Tids : threads[t].id = ret["c1"].id /\ threads[t].joined

\* C11: under the DashMap variant, callers that spawn at the same time under
\* pairwise distinct ids all get Ok, and once they have returned ids() holds
\* exactly their ids, each with the one thread started for it.
C11_DistinctSpawnsAllPresent ==
    /\ \A c \in Callers : ret[c].res \in {"none", "Ok"}
    /\ \A c \in Callers :
          ret[c].op = "spawn" =>
              /\ ret[c].id \in ids
              /\ Cardinality({t \in Tids : threads[t].id = ret[c].id}) = 1
              /\ threads[workers[ret[c].id]].id = ret[c].id
              /\ threads[workers[ret[c].id]].fate = "live"
    /\ (\A c \in Callers : ret[c].op = "spawn") =>
          /\ ids = {ret[c].id : c \in Callers}
          /\ Cardinality(ids) = Cardinality(Callers)
          /\ Len(threads) = Cardinality(Callers)

\* Both callers have returned Ok and both ids are registered, the thread
\* started first under the second id.
C11_Witness ==
    /\ \A c \in Callers : ret[c].op = "spawn" /\ ret[c].res = "Ok"
    /\ ids = Ids
    /\ workers[2] = 1

\* Only caller c1 has ever called the registry.
Single == pc["c2"] = "idle" /\ ret["c2"] = NoRet

\* C12: for a single caller the two variants behave alike: whichever was
\* compiled in, ids() is the set the call history determines, a teardown under
\* way can always take its next step unless it waits in the join of a thread
\* that has not terminated, and a completed teardown has signalled or found
\* gone, and consumed, every worker.
C12_VariantsAgree ==
    Single =>
        /\ pool = "alive" => ids = registered
        /\ pool = "dropping" =>
              \/ ENABLED Next
              \/ /\ pc["c1"] = "stop_join"
                 /\ threads[w["c1"]].status = "running"
        /\ pool = "dropped" => \A t \in Tids : threads[t].fate = "stopped"

\* C13 as stated: Worker::stop does not return before the join of its thread
\* has been attempted, so every worker it has consumed has been joined.
C13_StopAlwaysJoins ==
    \A t \in Tids : threads[t].fate = "stopped" => threads[t].joined

\* C13: when the receiver is gone at the send of line 158, Worker::stop returns
\* at once through the `?`: the join is not reached, the thread is left
\* unjoined and stop(id) returns SendShutdownSignal.
C13_SendFailureSkipsJoin ==
    [][\A c \in Callers :
          (/\ pc[c] = "stop_send"
           /\ pc'[c] # "stop_send"
           /\ threads[w[c]].rx = "gone") =>
              /\ pc'[c] # "stop_join"
              /\ ~threads'[w[c]].joined
              /\ threads'[w[c]].fate = "stopped"
              /\ op[c] = "stop" =>
                    ret'[c] = Returned("stop", arg[c], "SendShutdownSignal")]_vars

\* A stop(id) has returned SendShutdownSignal and its worker's thread, which
\* had dropped its receiver, was neither signalled nor joined and still runs.
C13_Witness ==
    \E c \in Callers, t \in Tids :
        /\ ret[c] = Returned("stop", threads[t].id, "SendShutdownSignal")
        /\ threads[t].fate = "stopped"
        /\ threads[t].rx = "gone"
        /\ threads[t].status = "running"
        /\ ~threads[t].signalled
        /\ ~threads[t].joined

\* C14: a stop(id) that found the worker and failed returns StopError for that
\* id exactly when the signal was delivered and the thread panicked, and
\* SendShutdownSignal exactly when the receiver was already gone; the worker is
\* then in the table under no key, and the id is free unless another caller
\* has registered it meanwhile. A stop of a free id returns WorkerNotFound and
\* a spawn of a free id is not refused.
C14_StopFailureRemoves ==
    [][/\ \A c \in Callers :
            (/\ op[c] = "stop"
             /\ pc[c] \in {"stop_send", "stop_join"}
             /\ pc'[c] = "idle") =>
                LET t == w[c]
                    r == ret'[c].res
                IN  /\ ret'[c].op = "stop"
                    /\ ret'[c].id = threads[t].id
                    /\ r \in {"Ok", "StopError", "SendShutdownSignal"}
                    /\ r = "StopError" <=>
                          threads[t].signalled /\ threads[t].status = "panicked"
                    /\ r = "SendShutdownSignal" <=>
                          ~threads[t].signalled /\ threads[t].rx = "gone"
                    /\ r # "Ok" =>
                          /\ \A i \in Ids : workers'[i] # t
                          /\ (strategy = "hashmap" \/ Single) => workers'[arg[c]] = NoWorker
       /\ \A c \in Callers :
            (/\ op[c] = "stop" /\ pc[c] = "remove" /\ ~Occupied(arg[c])
             /\ pc'[c] # "remove") =>
                ret'[c] = Returned("stop", arg[c], "WorkerNotFound")
       /\ \A c \in Callers, i \in Ids :
            (/\ pc[c] = "idle" /\ ~Occupied(i)
             /\ op'[c] = "spawn" /\ arg'[c] = i) =>
                pc'[c] = "spawn_new"
       /\ \A c \in Callers, i \in Ids :
            (pc[c] = "idle" /\ ~Occupied(i) /\ ret'[c] # ret[c]) =>
                ret'[c] # Returned("spawn", i, "WorkerAlreadyExist")]_vars

\* One stop has returned StopError and another SendShutdownSignal, and both
\* ids are free.
C14_Witness ==
    \E c \in Callers : \E d \in Callers \ {c} :
        /\ ret[c].res = "StopError"
        /\ ret[d].res = "SendShutdownSignal"
        /\ ~Occupied(ret[c].id)
        /\ ~Occupied(ret[d].id)

\* C15: a worker is retired in the order removed, signalled, joined: a joined
\* thread has been sent its signal, a thread that has been sent its signal is
\* in the table under no key, and stop or teardown hold a worker only after
\* having taken it out of the table.
C15_RemoveSignalJoin ==
    /\ \A t \in Tids :
          /\ threads[t].joined => threads[t].signalled
          /\ threads[t].signalled => \A i \in Ids : workers[i] # t
    /\ \A c \in Callers :
          pc[c] \in {"stop_send", "stop_join"} => \A i \in Ids : workers[i] # w[c]

\* One thread removed and signalled but not yet joined, another already joined.
C15_Witness ==
    /\ \E t \in Tids : threads[t].signalled /\ ~threads[t].joined
    /\ \E t \in Tids : threads[t].joined

\* ------------------------------------------------------------------ spawn racing stop
\* Under the DashMap variant caller c1 calls spawn(i) once and caller c2 calls
\* stop(i) once, on the same id and at the same time. The registry starts
\* empty or with one worker, left there by an earlier spawn.
InitSpawnStopRace ==
    /\ strategy = "dashmap"
    /\ state \in States
    /\ pool = "alive"
    /\ \/ /\ workers = [id \in Ids |-> NoWorker]
          /\ threads = <<>>
          /\ registered = {}
       \/ \E i \in Ids, kind \in Kinds :
          /\ workers = [id \in Ids |-> IF id = i THEN 1 ELSE NoWorker]
          /\ threads = <<Worker_new(i, kind)>>
          /\ registered = {i}
    /\ pc = [c \in Callers |-> "idle"]
    /\ op = [c \in Callers |-> "none"]
    /\ arg = [c \in Callers |-> NoId]
    /\ w = [c \in Callers |-> NoWorker]
    /\ ret = [c \in Callers |-> NoRet]
    /\ iterGuard = {}

\* Caller c has not called yet, and i is the id the other caller has used, if
\* it has called.
SameId(c, i) ==
    /\ ret[c] = NoRet
    /\ \A d \in Callers \ {c} :
          /\ arg[d] # NoId => arg[d] = i
          /\ ret[d] # NoRet => ret[d].id = i

NextSpawnStopRace ==
    \/ \E i \in Ids : SameId("c1", i) /\ spawn_contains_key("c1", i)
    \/ spawn_Worker_new("c1")
    \/ spawn_insert("c1")
    \/ \E i \in Ids : SameId("c2", i) /\ stop_call("c2", i)
    \/ workers_remove("c2")
    \/ Worker_stop_send("c2")
    \/ Worker_stop_join("c2")
    \/ \E t \in Tids : thread_drop_rx(t)
    \/ \E t \in Tids : thread_exit(t)
    \/ \E t \in Tids : thread_panic(t)

SpecSpawnStopRace == InitSpawnStopRace /\ [][NextSpawnStopRace]_vars

\* C16: under the DashMap variant, once a spawn(i) and a stop(i) that ran at the
\* same time have both returned, their results and the presence of i are those
\* of spawn then stop or of stop then spawn. With i present at the start:
\* (WorkerAlreadyExist, found, absent) or (found, Ok, present, the old worker
\* stopped and the new one registered). With i absent at the start:
\* (Ok, found, absent) or (WorkerNotFound, Ok, present).
C16_SpawnStopLinearizable ==
    (ret["c1"] # NoRet /\ ret["c2"] # NoRet) =>
        LET i == ret["c1"].id
            started == {t \in Tids : threads[t].id = i}
            found == ret["c2"].res \in {"Ok", "StopError", "SendShutdownSignal"}
        IN  /\ ret["c2"].id = i
            /\ ret["c1"].res \in {"Ok", "WorkerAlreadyExist"}
            /\ found \/ ret["c2"].res = "WorkerNotFound"
            /\ ret["c1"].res = "WorkerAlreadyExist" =>
                  /\ Cardinality(started) = 1
                  /\ found
                  /\ workers[i] = NoWorker
            /\ (ret["c1"].res = "Ok" /\ Cardinality(started) = 2) =>
                  /\ found
                  /\ workers[i] # NoWorker
                  /\ threads[workers[i]].fate = "live"
                  /\ \E t \in started \ {workers[i]} : threads[t].fate = "stopped"
            /\ (ret["c1"].res = "Ok" /\ Cardinality(started) = 1) =>
                  \/ /\ found
                     /\ workers[i] = NoWorker
                     /\ \A t \in started : threads[t].fate = "stopped"
                  \/ /\ ret["c2"].res = "WorkerNotFound"
                     /\ workers[i] # NoWorker
                     /\ threads[workers[i]].fate = "live"

\* The two calls overlap: stop(i) has removed the old worker and waits in its
\* join while spawn(i), having found i vacant, is about to insert a new one.
C16_Witness ==
    /\ pc["c1"] = "spawn_insert"
    /\ pc["c2"] = "stop_join"
    /\ arg["c1"] = arg["c2"]

\* C17: under the DashMap variant a caller inside Worker::stop for stop(A), at
\* the send or blocked in the join, holds no lock of the table, and every other
\* caller can take the step it is at of a spawn(B), stop(B) or ids() for any B
\* other than A.
C17_StopHoldsNoLock ==
    strategy = "dashmap" =>
        \A c \in Callers :
            (op[c] = "stop" /\ pc[c] \in {"stop_send", "stop_join"}) =>
                /\ iterGuard = {}
                /\ \A d \in Callers \ {c}, B \in Ids \ {arg[c]} :
                      /\ pc[d] = "idle" =>
                            /\ ENABLED stop_call(d, B)
                            /\ FactoryBudget => ENABLED spawn_contains_key(d, B)
                      /\ (pc[d] = "spawn_new" /\ arg[d] = B) =>
                            ENABLED spawn_Worker_new(d)
                      /\ (pc[d] = "spawn_insert" /\ arg[d] = B) =>
                            ENABLED spawn_insert(d)
                      /\ (pc[d] = "remove" /\ arg[d] = B) =>
                            ENABLED workers_remove(d)
                      /\ (pc[d] = "stop_send" /\ arg[d] = B) =>
                            ENABLED Worker_stop_send(d)

\* c1 is blocked in the join of stop(1) on a thread that never exits, and c2 is
\* inside a spawn(2), about to insert.
C17_Witness ==
    /\ strategy = "dashmap"
    /\ op["c1"] = "stop" /\ pc["c1"] = "stop_join" /\ arg["c1"] = 1
    /\ threads[w["c1"]].kind = "hang"
    /\ pc["c2"] = "spawn_insert" /\ arg["c2"] = 2

\* ------------------------------------------------------------------ scheduling
\* A caller inside Worker::stop is a running thread of the program: it gets to
\* send, and its join returns once the joined thread has terminated. A
\* well-behaved worker thread returns once it has been signalled or its sender
\* is gone.
Fairness ==
    /\ \A c \in Callers : WF_vars(Worker_stop_send(c))
    /\ \A c \in Callers : WF_vars(Worker_stop_join(c))
    /\ \A n \in 1..MaxThreads :
          WF_vars(n \in Tids /\ threads[n].kind = "good" /\ thread_exit(n))

SpecFair == Spec /\ Fairness

\* C18: stop(id) on a present worker blocks in the join until the thread has
\* terminated: a caller in the join stays there across every step taken while
\* the thread runs; on a thread that exits once signalled, stop returns in the
\* end; on a thread that keeps its receiver and never exits it never returns.
C18_StopBlocksUntilExit ==
    /\ [][\A c \in Callers :
            (pc[c] = "stop_join" /\ threads'[w[c]].status = "running") =>
                (pc'[c] = "stop_join" /\ w'[c] = w[c])]_vars
    /\ \A c \in Callers :
          (op[c] = "stop" /\ pc[c] = "stop_send" /\ threads[w[c]].kind = "good")
              ~> (pc[c] = "idle" /\ ret[c].op = "stop")
    /\ \A c \in Callers, n \in 1..MaxThreads :
          [](/\ op[c] = "stop" /\ pc[c] = "stop_join" /\ w[c] = n
             /\ threads[n].kind = "hang"
             => [](pc[c] = "stop_join" /\ w[c] = n))

\* One stop has returned Ok from the join of a thread that exited on its
\* signal while another caller is blocked in the join of a thread that never
\* exits.
C18_Witness ==
    \E c \in Callers : \E d \in Callers \ {c} :
        /\ ret[c].res = "Ok" /\ ret[c].op = "stop"
        /\ \E t \in Tids : /\ threads[t].kind = "good" /\ threads[t].joined
                           /\ threads[t].id = ret[c].id
        /\ op[d] = "stop" /\ pc[d] = "stop_join"
        /\ threads[w[d]].kind = "hang"

\* C19: every step of a spawn(i) or stop(i), whatever it returns, leaves the
\* entries under the other keys as they were, leaves every thread started under
\* another id as it was (not signalled, joined or dropped), starts no thread
\* under another id, and leaves the stored state unchanged.
C19_OtherKeysUntouched ==
    [][\A c \in Callers :
          (/\ pc'[c] # pc[c] \/ ret'[c] # ret[c]
           /\ {op[c], op'[c], ret'[c].op} \cap {"spawn", "stop"} # {}) =>
              LET i == IF arg[c] # NoId THEN arg[c]
                       ELSE IF arg'[c] # NoId THEN arg'[c] ELSE ret'[c].id
              IN  /\ i \in Ids
                  /\ \A j \in Ids \ {i} : workers'[j] = workers[j]
                  /\ \A t \in Tids : threads[t].id # i => threads'[t] = threads[t]
                  /\ \A t \in (DOMAIN threads') \ Tids : threads'[t].id = i
                  /\ Len(threads') >= Len(threads)
                  /\ state' = state]_vars

\* stop(1) has returned Ok and a failed duplicate spawn has returned
\* WorkerAlreadyExist while the worker under 2 is registered, its thread running
\* and unsignalled.
C19_Witness ==
    \E c \in Callers : \E d \in Callers \ {c} :
        /\ ret[c] = Returned("stop", 1, "Ok")
        /\ ret[d].res = "WorkerAlreadyExist"
        /\ Occupied(2)
        /\ threads[workers[2]].status = "running"
        /\ ~threads[workers[2]].signalled

\* Every thread started so far keeps its receiver and returns only once it has
\* been signalled, if ever.
WellBehaved == \A t \in Tids : threads[t].kind \in {"good", "hang"}

\* The threads started under id i that have not been joined.
Unjoined(i) == {t \in Tids : threads[t].id = i /\ ~threads[t].joined}

\* C20 as stated: under both variants, with well-behaved threads, at most one
\* thread started under an id is unjoined at any time, also while a stop(id) is
\* blocked in the join.
C20_OneUnjoinedPerId ==
    WellBehaved => \A i \in Ids : Cardinality(Unjoined(i)) <= 1

\* C20: under the HashMap variant, with well-behaved threads, at most one
\* thread started under an id is unjoined at any time, also while a stop(id) is
\* blocked in the join: no other call runs until that stop has returned.
C20_OneUnjoinedPerIdExclusive ==
    (strategy = "hashmap" /\ WellBehaved) =>
        \A i \in Ids : Cardinality(Unjoined(i)) <= 1

\* Under the HashMap variant an id is in its second generation: the first
\* thread started under it has been joined by a stop and the second is being
\* stopped, its caller in the join.
C20_Witness ==
    /\ strategy = "hashmap"
    /\ WellBehaved
    /\ \E c \in Callers :
          /\ op[c] = "stop" /\ pc[c] = "stop_join"
          /\ ~threads[w[c]].joined
          /\ \E t \in Tids \ {w[c]} : /\ threads[t].id = threads[w[c]].id
                                      /\ threads[t].joined
====
